---- MODULE Spec2Model ----
(***************************************************************************)
(* A model of the execution orchestrator torch::executor::Module           *)
(* (extension/module/module.cpp): lazy load of the data loader and the     *)
(* Program, the per-name method cache, and the execute pipeline.           *)
(*                                                                         *)
(* Every public member function is one action.  The external collaborators *)
(* (data loaders, Program, Method) are not part of module.cpp; their       *)
(* outcomes are inputs of each call, drawn from the record set Envs.       *)
(***************************************************************************)
EXTENDS Integers, Sequences, FiniteSets, TLC

VARIABLES
    ctor,          \* which constructor built the instance
    load_mode_,    \* Module::load_mode_
    data_loader_,  \* Module::data_loader_ : "null", "injected", "constructed"
    program_,      \* Module::program_     : "null", "shared", "parsed"
    deleter,       \* the data loader captured by program_'s deleter
    methods_,      \* Module::methods_     : method name -> MethodHolder
    constructed,   \* data loaders constructed by load() so far
    parsed,        \* Programs parsed by load() so far
    failed,        \* methods whose load_method returned an error, not loaded since
    last           \* the last call: member function, method name, input.size(),
                   \* returned Error, steps performed, returned outputs and
                   \* names

\* the lifetime of the instance and of what load() put on the heap
VARIABLES
    alive,         \* the Module has not been destroyed
    shares,        \* copies of program_ held outside the Module
    deleted,       \* Programs parsed by load() that were deleted
    released       \* data loaders of this instance that were released

OwnVars == <<alive, shares, deleted, released>>

\* two execution contexts calling into the instance
VARIABLES
    guarded,       \* the callers serialize their calls with a mutex of theirs
    mutex,         \* the context that holds that mutex, 0 when it is free
    pc,            \* per context: the statement of load / load_method it is at
    job,           \* per context: the call it is in and the locals of the call
    built          \* per method: successful Program::load_method calls so far

RaceVars == <<guarded, mutex, pc, job, built>>

\* op_var.cpp: one call of var_out
VARIABLES
    in_data,       \* the input tensor: per output element, the elements reduced
    unbiased,      \* the argument unbiased
    out_data,      \* the elements of out
    written        \* var_out has returned

VarVars == <<in_data, unbiased, out_data, written>>

vars == <<ctor, load_mode_, data_loader_, program_, deleter, methods_,
          constructed, parsed, failed, last, OwnVars, RaceVars, VarVars>>

----------------------------------------------------------------------------
(* Bounds of the model *)

\* most copies of program_ held outside the Module at one time
MaxShares == 2
\* most elements of out, and most elements reduced into one of them
MaxOut == 2
MaxNum == 3
\* bits of size_t in the model of op_var.cpp
SizeBits == 16
\* longest input vector handed to execute
MaxInputs == 2
\* the counters constructed and parsed saturate here
CountCap == 3
\* output slots set_output_data_ptr is called with: 0..MaxOutputIndex
MaxOutputIndex == 1

----------------------------------------------------------------------------
(* The world outside module.cpp *)

\* method names callers use; "missing" is not a method of the Program
Names == {"forward", "identity", "missing"}

\* EValues a caller supplies; Mismatch is a value no input slot accepts
Values == {"t1"}
Mismatch == "mismatch"
Inputs == Values \cup {Mismatch}

\* content of an input slot before any set_input writes it: the placeholder
\* the Program was compiled with
Unbound == "unbound"

LoadModes == {"File", "Mmap", "MmapUseMlock", "MmapUseMlockIgnoreErrors"}

AllOk == [file |-> TRUE, mlock |-> TRUE, parse |-> TRUE,
          mat |-> TRUE, run |-> TRUE, out |-> TRUE]

\* the outcomes the collaborators give during one call: file opened, pages
\* locked, Program parsed, method initialized, run completed, outputs read.
\* A call returns at its first error, so at most one of them fails.
Envs == {AllOk} \cup {[AllOk EXCEPT ![f] = FALSE] : f \in DOMAIN AllOk}

\* the methods of the serialized Program and their metadata
ProgramMethods == {"forward", "identity"}

MethodMetaOf(name) ==
    IF name = "forward"
    THEN [buffers |-> <<128, 256>>, inputs |-> 2, outputs |-> 1]
    ELSE [buffers |-> <<64>>, inputs |-> 1, outputs |-> 1]

Ok == "Ok"

Step(stage, arg, err) == [stage |-> stage, arg |-> arg, err |-> err]

\* util::FileDataLoader::from / util::MmapDataLoader::from with the MlockConfig
\* the load mode selects: page locking that fails makes the locking mode fail
DataLoaderFrom(mode, env) ==
    IF ~env.file THEN "AccessorConstructionError"
    ELSE IF mode = "MmapUseMlock" /\ ~env.mlock THEN "AccessorConstructionError"
    ELSE Ok

\* Program::load(data_loader, verification)
ProgramLoad(env) == IF env.parse THEN Ok ELSE "ProgramParseError"

\* Program::method_meta(name): fails when the Program has no such method
ProgramMethodMeta(name) ==
    IF name \in ProgramMethods THEN Ok ELSE "MethodNotFoundError"

\* Program::load_method(name, memory_manager, event_tracer): fails when the
\* name is unknown, when the planned spans do not fit the compiled plan, or
\* when the method cannot be initialized
ProgramLoadMethod(name, spans, env) ==
    IF name \notin ProgramMethods THEN "MethodNotFoundError"
    ELSE IF spans # MethodMetaOf(name).buffers THEN "MethodMaterializationError"
    ELSE IF ~env.mat THEN "MethodMaterializationError"
    ELSE Ok

\* Method::set_input(value, index): the slot must exist and accept the value
MethodSetInput(inputs, value, index) ==
    IF index >= Len(inputs) \/ value = Mismatch
    THEN [err |-> "InputBindingError", inputs |-> inputs]
    ELSE [err |-> Ok, inputs |-> [inputs EXCEPT ![index + 1] = value]]

\* Method::execute()
MethodExecute(env) == IF env.run THEN Ok ELSE "ExecutionError"

\* Method::get_outputs(buffer, size)
MethodGetOutputs(env) == IF env.out THEN Ok ELSE "OutputRetrievalError"

\* what a run computes from the content of the input slots: "forward" pairs
\* its two inputs into one output, "identity" returns its input
MethodRun(name, inputs) ==
    IF name = "forward"
    THEN << <<inputs[1], inputs[2]>> >>
    ELSE <<inputs[1]>>

\* where a run leaves its outputs: the output whose slot was rebound is
\* written to the storage the slot was rebound to, which keeps its content
\* otherwise
MethodWrite(output_ptr, external, outputs) ==
    [i \in DOMAIN external |->
        IF output_ptr[i] = "external" THEN outputs[i] ELSE external[i]]

\* Method::set_output_data_ptr(ptr, nbytes, index)
MethodSetOutputDataPtr(output_ptr, index) ==
    IF index >= Len(output_ptr)
    THEN [err |-> "InvalidArgument", output_ptr |-> output_ptr]
    ELSE [err |-> Ok, output_ptr |-> [output_ptr EXCEPT ![index + 1] = "external"]]

----------------------------------------------------------------------------
(* module.cpp.  A Module value m is the record of the fields the member     *)
(* functions read and write; each member function maps m, its arguments and *)
(* the collaborators' outcomes to the new m, the returned Error and the     *)
(* steps it performed.                                                      *)

Self == [data_loader_ |-> data_loader_, program_ |-> program_,
         deleter |-> deleter, methods_ |-> methods_]

Return(m, err, steps) == [m |-> m, err |-> err, steps |-> steps]

is_loaded(m) == m.program_ # "null"

is_method_loaded(m, method_name) == method_name \in DOMAIN m.methods_

\* load that constructs a data loader although the instance has one
DoLoad_constructs_anyway(m, mode, env) ==
    LET from == DataLoaderFrom(mode, env)
        s1 == <<Step("DataLoader::from", 0, from)>>
    IN  IF from # Ok
        THEN Return(m, from, s1)
        ELSE LET m1 == [m EXCEPT !.data_loader_ = "constructed"]
                 perr == ProgramLoad(env)
                 s2 == Append(s1, Step("Program::load", 0, perr))
             IN  IF perr # Ok
                 THEN Return(m1, perr, s2)
                 ELSE Return([m1 EXCEPT !.program_ = "parsed",
                                        !.deleter = m1.data_loader_,
                                        !.data_loader_ = "null"],
                             Ok, s2)

\* Module::load, the branch taken when no Program is loaded: construct the
\* data loader the load mode selects unless one is set, parse the Program,
\* and move the data loader into the deleter of program_
DoLoad(m, mode, env) ==
    LET construct == m.data_loader_ = "null"
        from == IF construct THEN DataLoaderFrom(mode, env) ELSE Ok
        s1 == IF construct THEN <<Step("DataLoader::from", 0, from)>> ELSE <<>>
    IN  IF from # Ok
        THEN Return(m, from, s1)
        ELSE LET m1 == IF construct
                       THEN [m EXCEPT !.data_loader_ = "constructed"]
                       ELSE m
                 perr == ProgramLoad(env)
                 s2 == Append(s1, Step("Program::load", 0, perr))
             IN  IF perr # Ok
                 THEN Return(m1, perr, s2)
                 ELSE Return([m1 EXCEPT !.program_ = "parsed",
                                        !.deleter = m1.data_loader_,
                                        !.data_loader_ = "null"],
                             Ok, s2)

\* load without the is_loaded() check
load_always(m, mode, env) == DoLoad(m, mode, env)

\* load that drops the data loader it constructed when the parse fails
load_drops_loader(m, mode, env) ==
    IF ~is_loaded(m)
    THEN LET r == DoLoad(m, mode, env)
         IN  IF r.err # Ok THEN Return(m, r.err, r.steps) ELSE r
    ELSE Return(m, Ok, <<>>)

\* load that leaves the data loader in data_loader_ instead of moving it
\* into the deleter of program_
load_keeps_loader(m, mode, env) ==
    IF ~is_loaded(m)
    THEN LET r == DoLoad(m, mode, env)
         IN  IF r.err = Ok
             THEN Return([r.m EXCEPT !.data_loader_ = r.m.deleter,
                                     !.deleter = "null"],
                         Ok, r.steps)
             ELSE r
    ELSE Return(m, Ok, <<>>)

\* load that refuses to parse with a data loader left by a failed load()
load_sticky(m, mode, env) ==
    IF ~is_loaded(m)
    THEN IF m.data_loader_ = "constructed"
         THEN Return(m, "ProgramParseError", <<>>)
         ELSE DoLoad(m, mode, env)
    ELSE Return(m, Ok, <<>>)

\* Module::load
load(m, mode, env) ==
    IF ~is_loaded(m)
    THEN DoLoad(m, mode, env)
    ELSE Return(m, Ok, <<>>)

\* the call l of a member function made by another one, entered in the steps
\* of the caller
Nested(stage, l) ==
    Return(l.m, l.err, <<Step(stage, 0, l.err)>> \o l.steps)

\* the load() call a member function makes first: ET_CHECK_OK_OR_RETURN_ERROR
CallLoad(m, mode, env) == Nested("load", load(m, mode, env))

\* the loop of load_method asking for the size of the first entry each time
PlannedBuffers_first_size(meta) ==
    [index \in 1..Len(meta.buffers) |-> meta.buffers[1]]

\* the loop of load_method over the planned buffers: one buffer and one span
\* per entry of the metadata, of the declared size
PlannedBuffers(meta) ==
    [index \in 1..Len(meta.buffers) |-> meta.buffers[index]]

AllocSteps(buffers) ==
    [index \in 1..Len(buffers) |-> Step("planned_buffer", buffers[index], Ok)]

NewHolder(meta, buffers) ==
    [planned_buffers |-> buffers,
     planned_spans   |-> buffers,
     inputs          |-> [i \in 1..meta.inputs |-> Unbound],
     output_ptr      |-> [i \in 1..meta.outputs |-> "planned"],
     external        |-> [i \in 1..meta.outputs |-> "none"]]

\* load_method that does not look at what load() returned
MakeHolder_ignores_load(l, method_name, env) ==
    LET merr == ProgramMethodMeta(method_name)
        s1 == Append(l.steps, Step("method_meta", 0, merr))
    IN  IF merr # Ok
        THEN Return(l.m, merr, s1)
        ELSE LET meta == MethodMetaOf(method_name)
                 buffers == PlannedBuffers(meta)
                 lerr == ProgramLoadMethod(method_name, buffers, env)
                 s2 == Append(s1 \o AllocSteps(buffers),
                              Step("Program::load_method", 0, lerr))
             IN  IF lerr # Ok
                 THEN Return(l.m, lerr, s2)
                 ELSE Return(
                        [l.m EXCEPT !.methods_ =
                            l.m.methods_ @@
                                (method_name :> NewHolder(meta, buffers))],
                        Ok, s2)

\* load_method after its load() call l: return the error of load(), or look
\* up the metadata, allocate the planned buffers, materialize the method and
\* insert the holder
MakeHolder(l, method_name, env) ==
    IF l.err # Ok
    THEN l
    ELSE LET merr == ProgramMethodMeta(method_name)
             s1 == Append(l.steps, Step("method_meta", 0, merr))
         IN  IF merr # Ok
             THEN Return(l.m, merr, s1)
             ELSE LET meta == MethodMetaOf(method_name)
                      buffers == PlannedBuffers(meta)
                      lerr == ProgramLoadMethod(method_name, buffers, env)
                      s2 == Append(s1 \o AllocSteps(buffers),
                                   Step("Program::load_method", 0, lerr))
                  IN  IF lerr # Ok
                      THEN Return(l.m, lerr, s2)
                      ELSE Return(
                             [l.m EXCEPT !.methods_ =
                                 l.m.methods_ @@
                                     (method_name :> NewHolder(meta, buffers))],
                             Ok, s2)

\* Module::load_method, the branch taken when method_name has no holder
DoLoadMethod(m, mode, method_name, env) ==
    MakeHolder(CallLoad(m, mode, env), method_name, env)

\* load_method without the is_method_loaded() check
load_method_always(m, mode, method_name, env) ==
    DoLoadMethod(m, mode, method_name, env)

\* load_method that inserts the holder before it checks the materialization
load_method_inserts_early(m, mode, method_name, env) ==
    IF ~is_method_loaded(m, method_name)
    THEN LET r == DoLoadMethod(m, mode, method_name, env)
         IN  IF r.err = "MethodMaterializationError"
             THEN Return([r.m EXCEPT !.methods_ =
                             r.m.methods_ @@
                                 (method_name :>
                                     NewHolder(MethodMetaOf(method_name),
                                               PlannedBuffers(MethodMetaOf(method_name))))],
                         r.err, r.steps)
             ELSE r
    ELSE Return(m, Ok, <<>>)

\* load_method that undoes the load() it forced when a later step fails
load_method_unloads(m, mode, method_name, env) ==
    IF ~is_method_loaded(m, method_name)
    THEN LET r == DoLoadMethod(m, mode, method_name, env)
         IN  IF r.err # Ok THEN Return(m, r.err, r.steps) ELSE r
    ELSE Return(m, Ok, <<>>)

\* Module::load_method
load_method(m, mode, method_name, env) ==
    IF ~is_method_loaded(m, method_name)
    THEN DoLoadMethod(m, mode, method_name, env)
    ELSE Return(m, Ok, <<>>)

\* the load_method() call a member function makes first
CallLoadMethod(m, mode, method_name, env) ==
    Nested("load_method", load_method(m, mode, method_name, env))

\* the methods of the Program in index order: num_methods, get_method_name
ProgramMethodList == <<"forward", "identity">>

Value(m, err, steps, outputs, names) ==
    [m |-> m, err |-> err, steps |-> steps, outputs |-> outputs, names |-> names]

\* method_names that misses the method at the last index
CollectNames_misses_last(l) ==
    IF l.err # Ok
    THEN Value(l.m, l.err, l.steps, <<>>, {})
    ELSE LET method_count == Len(ProgramMethodList)
         IN  Value(l.m, Ok, l.steps, <<>>,
                   {ProgramMethodList[index + 1] : index \in 0..(method_count - 2)})

\* method_names after its load() call l: the names at the indices
\* 0..method_count-1, as a set
CollectNames(l) ==
    IF l.err # Ok
    THEN Value(l.m, l.err, l.steps, <<>>, {})
    ELSE LET method_count == Len(ProgramMethodList)
         IN  Value(l.m, Ok, l.steps, <<>>,
                   {ProgramMethodList[index + 1] : index \in 0..(method_count - 1)})

\* method_names that calls load() a second time before it reads the names
method_names_reloads(m, mode, env) ==
    CollectNames(Nested("load", CallLoad(m, mode, env)))

\* Module::method_names
method_names(m, mode, env) == CollectNames(CallLoad(m, mode, env))

\* Module::method_meta
method_meta(m, mode, method_name, env) ==
    CallLoadMethod(m, mode, method_name, env)

\* the input loop of execute: set_input(input[index], index) for index
\* 0..input.size()-1, returning at the first error
RECURSIVE SetInputs(_, _, _)
SetInputs(inputs, input, index) ==
    IF index < Len(input)
    THEN LET r == MethodSetInput(inputs, input[index + 1], index)
             s == <<Step("set_input", index, r.err)>>
         IN  IF r.err # Ok
             THEN [err |-> r.err, inputs |-> r.inputs, steps |-> s]
             ELSE LET rest == SetInputs(r.inputs, input, index + 1)
                  IN  [err |-> rest.err, inputs |-> rest.inputs,
                       steps |-> s \o rest.steps]
    ELSE [err |-> Ok, inputs |-> inputs, steps |-> <<>>]

\* the run and the collection of the outputs, once the inputs are bound:
\* m1 is the instance and s1 the steps so far, inputs the content of the slots
RunAndCollect(m1, s1, method_name, inputs, env) ==
    LET xerr == MethodExecute(env)
        s2 == Append(s1, Step("execute", 0, xerr))
    IN  IF xerr # Ok
        THEN Value(m1, xerr, s2, <<>>, {})
        ELSE LET holder == m1.methods_[method_name]
                 m2 == [m1 EXCEPT !.methods_[method_name].external =
                            MethodWrite(holder.output_ptr, holder.external,
                                        MethodRun(method_name, inputs))]
                 outputs_size == Len(holder.output_ptr)
                 gerr == MethodGetOutputs(env)
                 s3 == Append(s2, Step("get_outputs", outputs_size, gerr))
             IN  IF gerr # Ok
                 THEN Value(m2, gerr, s3, <<>>, {})
                 ELSE Value(m2, Ok, s3, MethodRun(method_name, inputs), {})

\* execute that returns Ok and no outputs when load_method fails
RunMethod_swallows(l, method_name, input, env) ==
    Value(l.m, Ok, l.steps, <<>>, {})

\* execute that does not look at what set_input returns
RunMethod_ignores_bind(l, method_name, input, env) ==
    IF l.err # Ok
    THEN Value(l.m, l.err, l.steps, <<>>, {})
    ELSE LET b == SetInputs(l.m.methods_[method_name].inputs, input, 0)
         IN  RunAndCollect([l.m EXCEPT !.methods_[method_name].inputs = b.inputs],
                           l.steps \o b.steps, method_name, b.inputs, env)

\* execute that unbinds the inputs it bound when a later set_input fails
RunMethod_rolls_back(l, method_name, input, env) ==
    IF l.err # Ok
    THEN Value(l.m, l.err, l.steps, <<>>, {})
    ELSE LET b == SetInputs(l.m.methods_[method_name].inputs, input, 0)
         IN  IF b.err # Ok
             THEN Value(l.m, b.err, l.steps \o b.steps, <<>>, {})
             ELSE RunAndCollect([l.m EXCEPT !.methods_[method_name].inputs = b.inputs],
                                l.steps \o b.steps, method_name, b.inputs, env)

\* execute that drops the holder of the method when an input is refused
RunMethod_evicts(l, method_name, input, env) ==
    IF l.err # Ok
    THEN Value(l.m, l.err, l.steps, <<>>, {})
    ELSE LET b == SetInputs(l.m.methods_[method_name].inputs, input, 0)
             m1 == [l.m EXCEPT !.methods_[method_name].inputs = b.inputs]
             s1 == l.steps \o b.steps
         IN  IF b.err # Ok
             THEN Value([l.m EXCEPT !.methods_ =
                            [n \in DOMAIN l.m.methods_ \ {method_name}
                                |-> l.m.methods_[n]]],
                        b.err, s1, <<>>, {})
             ELSE RunAndCollect(m1, s1, method_name, b.inputs, env)

\* execute after its load_method() call l: return the error of load_method,
\* or bind the inputs, run the method and collect the outputs
RunMethod(l, method_name, input, env) ==
    IF l.err # Ok
    THEN Value(l.m, l.err, l.steps, <<>>, {})
    ELSE LET b == SetInputs(l.m.methods_[method_name].inputs, input, 0)
             m1 == [l.m EXCEPT !.methods_[method_name].inputs = b.inputs]
             s1 == l.steps \o b.steps
         IN  IF b.err # Ok
             THEN Value(m1, b.err, s1, <<>>, {})
             ELSE RunAndCollect(m1, s1, method_name, b.inputs, env)

\* Module::execute
execute(m, mode, method_name, input, env) ==
    RunMethod(CallLoadMethod(m, mode, method_name, env), method_name, input, env)

\* set_output_data_ptr that returns Ok without calling the Method
RebindOutput_skips(l, output_index) ==
    IF l.err # Ok
    THEN l
    ELSE Return(l.m, Ok,
                Append(l.steps, Step("set_output_data_ptr", output_index, Ok)))

\* set_output_data_ptr after its load_method("forward") call l
RebindOutput(l, output_index) ==
    IF l.err # Ok
    THEN l
    ELSE LET r == MethodSetOutputDataPtr(l.m.methods_["forward"].output_ptr,
                                         output_index)
         IN  Return([l.m EXCEPT !.methods_["forward"].output_ptr = r.output_ptr],
                    r.err,
                    Append(l.steps, Step("set_output_data_ptr", output_index, r.err)))

\* Module::set_output_data_ptr
set_output_data_ptr(m, mode, output_index, env) ==
    RebindOutput(CallLoadMethod(m, mode, "forward", env), output_index)

----------------------------------------------------------------------------
(* The state machine: one instance, its public member functions called one  *)
(* after the other.                                                         *)

NoCall == [op |-> "none", name |-> "", size |-> 0, err |-> Ok, steps |-> <<>>,
           outputs |-> <<>>, names |-> {}, retry |-> FALSE]

\* the execution contexts
Contexts == {1, 2}

NoJob == [op |-> "none", name |-> "", err |-> Ok]

\* no context is in a call
RaceIdle ==
    /\ mutex = 0
    /\ pc = [t \in Contexts |-> "idle"]
    /\ job = [t \in Contexts |-> NoJob]
    /\ built = [n \in ProgramMethods |-> 0]

\* Module::Module, the three constructors
Constructed ==
    /\ ctor \in {"file_path", "data_loader", "program"}
    /\ load_mode_ \in IF ctor = "file_path" THEN LoadModes ELSE {"MmapUseMlock"}
    /\ data_loader_ = IF ctor = "data_loader" THEN "injected" ELSE "null"
    /\ program_ = IF ctor = "program" THEN "shared" ELSE "null"
    /\ deleter = "null"
    /\ methods_ = <<>>
    /\ constructed = 0
    /\ parsed = 0
    /\ failed = {}
    /\ last = NoCall
    /\ alive = TRUE
    /\ shares = 0
    /\ deleted = 0
    /\ released = 0

\* out before var_out has written it
Unset == <<>>

\* var_out is not called
VarIdle ==
    /\ in_data = [num |-> 0, rows |-> <<>>]
    /\ unbiased = FALSE
    /\ out_data = Unset
    /\ written = FALSE

\* one instance, its member functions called one after the other
Init == Constructed /\ guarded = TRUE /\ RaceIdle /\ VarIdle

\* the steps of a call that succeeded at the given stage
Count(steps, stage) ==
    Cardinality({i \in DOMAIN steps : steps[i].stage = stage /\ steps[i].err = Ok})

Capped(n) == IF n > CountCap THEN CountCap ELSE n

\* whether the load_method call made in these steps returned an error
LoadMethodFailed(steps) ==
    \E i \in DOMAIN steps : steps[i].stage = "load_method" /\ steps[i].err # Ok

\* the effect of a call on the instance, and the record of the call
Called(op, name, size, result) ==
    LET r == result IN
        /\ data_loader_' = r.m.data_loader_
        /\ program_' = r.m.program_
        /\ deleter' = r.m.deleter
        /\ methods_' = r.m.methods_
        /\ constructed' = Capped(constructed + Count(r.steps, "DataLoader::from"))
        /\ parsed' = Capped(parsed + Count(r.steps, "Program::load"))
        /\ failed' = IF name \notin ProgramMethods THEN failed
                     ELSE IF LoadMethodFailed(r.steps) THEN failed \cup {name}
                     ELSE failed \ {name}
        /\ last' = [op |-> op, name |-> name, size |-> size, err |-> r.err,
                    steps |-> r.steps,
                    outputs |-> IF "outputs" \in DOMAIN r THEN r.outputs ELSE <<>>,
                    names |-> IF "names" \in DOMAIN r THEN r.names ELSE {},
                    retry |-> (name \in failed)]
        /\ UNCHANGED <<ctor, load_mode_>>
        /\ UNCHANGED <<OwnVars, RaceVars, VarVars>>

\* the outcomes a call can meet: only a collaborator the call consults has
\* one.  load() asks for a data loader when the instance has neither Program
\* nor data loader and for a parse when it has no Program; load_method asks
\* for the materialization of a method of the Program that has no holder;
\* execute runs the method and reads its outputs.
Consulted(m, method_name, runs) ==
    (IF ~is_loaded(m) /\ m.data_loader_ = "null" THEN {"file", "mlock"} ELSE {})
    \cup (IF ~is_loaded(m) THEN {"parse"} ELSE {})
    \cup (IF method_name \in ProgramMethods /\ ~is_method_loaded(m, method_name)
          THEN {"mat"} ELSE {})
    \cup (IF runs THEN {"run", "out"} ELSE {})

Outcomes(m, method_name, runs) ==
    {env \in Envs : \A f \in DOMAIN env : env[f] \/ f \in Consulted(m, method_name, runs)}

Load ==
    \E env \in Outcomes(Self, "", FALSE) :
        Called("load", "", 0, CallLoad(Self, load_mode_, env))

MethodNames ==
    \E env \in Outcomes(Self, "", FALSE) :
        Called("method_names", "", 0, method_names(Self, load_mode_, env))

LoadMethod ==
    \E name \in Names : \E env \in Outcomes(Self, name, FALSE) :
        Called("load_method", name, 0,
               CallLoadMethod(Self, load_mode_, name, env))

MethodMeta ==
    \E name \in Names : \E env \in Outcomes(Self, name, FALSE) :
        Called("method_meta", name, 0,
               method_meta(Self, load_mode_, name, env))

InputVectors == UNION {[1..n -> Inputs] : n \in 0..MaxInputs}

Execute ==
    \E name \in Names, input \in InputVectors :
      \E env \in Outcomes(Self, name, TRUE) :
        Called("execute", name, Len(input),
               execute(Self, load_mode_, name, input, env))

SetOutputDataPtr ==
    \E index \in 0..MaxOutputIndex :
      \E env \in Outcomes(Self, "forward", FALSE) :
        Called("set_output_data_ptr", "forward", 0,
               set_output_data_ptr(Self, load_mode_, index, env))

Next ==
    \/ Load
    \/ MethodNames
    \/ LoadMethod
    \/ MethodMeta
    \/ Execute
    \/ SetOutputDataPtr

Spec == Init /\ [][Next]_vars

----------------------------------------------------------------------------
(* Lifetime: the instance is used, its Program is shared with other owners, *)
(* and the instance and the other owners go away in any order.              *)

\* a step that is no call of a member function of module.cpp
Event(op) == [NoCall EXCEPT !.op = op]

\* the owners of the Program: program_ of the living Module and the copies
Owners == (IF alive /\ program_ # "null" THEN 1 ELSE 0) + shares

\* the deleter load() gave program_, run when the last owner lets go: it
\* deletes the Program, and its capture, the data loader, goes with it
RunDeleter ==
    /\ deleted' = Capped(deleted + 1)
    /\ released' = IF deleter # "null" THEN Capped(released + 1) ELSE released
    /\ deleter' = "null"

\* Module::program(): another owner takes a copy of program_
Share ==
    /\ alive /\ program_ # "null" /\ shares < MaxShares
    /\ shares' = shares + 1
    /\ last' = Event("program")
    /\ UNCHANGED <<ctor, load_mode_, data_loader_, program_, deleter, methods_,
                   constructed, parsed, failed, alive, deleted, released,
                   RaceVars, VarVars>>

\* an owner outside the Module lets go of its copy
Drop ==
    /\ shares > 0
    /\ shares' = shares - 1
    /\ last' = Event("drop")
    /\ IF Owners = 1 /\ parsed > deleted
       THEN RunDeleter
       ELSE UNCHANGED <<deleted, released, deleter>>
    /\ UNCHANGED <<ctor, load_mode_, data_loader_, program_, methods_,
                   constructed, parsed, failed, alive, RaceVars, VarVars>>

\* Module::~Module: the members go: the holders, the Module's share of the
\* Program, and the data loader that data_loader_ still holds
Destroy ==
    /\ alive
    /\ alive' = FALSE
    /\ methods_' = <<>>
    /\ program_' = "null"
    /\ data_loader_' = "null"
    /\ last' = Event("destroy")
    /\ IF Owners = 1 /\ program_ # "null" /\ parsed > deleted
       THEN /\ deleted' = Capped(deleted + 1)
            /\ deleter' = "null"
            /\ released' = Capped(released
                                    + (IF deleter # "null" THEN 1 ELSE 0)
                                    + (IF data_loader_ # "null" THEN 1 ELSE 0))
       ELSE /\ released' = IF data_loader_ # "null"
                           THEN Capped(released + 1) ELSE released
            /\ UNCHANGED <<deleted, deleter>>
    /\ UNCHANGED <<ctor, load_mode_, constructed, parsed, failed, shares,
                   RaceVars, VarVars>>

OwnLoad == alive /\ Load

OwnLoadMethod == alive /\ LoadMethod

NextOwn ==
    \/ OwnLoad
    \/ OwnLoadMethod
    \/ Share
    \/ Drop
    \/ Destroy

SpecOwn == Init /\ [][NextOwn]_vars

----------------------------------------------------------------------------
(* Two contexts: load() and load_method() taken statement by statement, as  *)
(* two execution contexts run them on one instance.  module.cpp takes no    *)
(* lock; the callers either serialize their calls with a mutex of their own *)
(* (guarded) or do not.                                                     *)

Goto(t, stage) == pc' = [pc EXCEPT ![t] = stage]

\* the call of context t returns err
Fail(t, err) ==
    /\ job' = [job EXCEPT ![t].err = err]
    /\ Goto(t, "return")

\* another context is in a call that no mutex keeps apart from that of t
Racing(t) == ~guarded /\ \E u \in Contexts \ {t} : pc[u] # "idle"

\* where load() returns to: its caller, or load_method at line 136
AfterLoad(t) == IF job[t].op = "load" THEN "return" ELSE "method_meta"

\* a context calls load() or load_method(name), taking the mutex first when
\* the callers use one
Begin(t) ==
    /\ pc[t] = "idle"
    /\ guarded => mutex = 0
    /\ mutex' = IF guarded THEN t ELSE mutex
    /\ \E call \in {[op |-> "load", name |-> "", err |-> Ok]}
                   \cup {[op |-> "load_method", name |-> n, err |-> Ok] : n \in Names} :
          /\ job' = [job EXCEPT ![t] = call]
          /\ Goto(t, IF call.op = "load" THEN "is_loaded" ELSE "is_method_loaded")
    /\ UNCHANGED <<ctor, load_mode_, data_loader_, program_, deleter, methods_,
                   constructed, parsed, failed, last, OwnVars, VarVars, guarded, built>>

\* line 133: if (!is_method_loaded(method_name))
MethodCheck(t) ==
    /\ pc[t] = "is_method_loaded"
    /\ Goto(t, IF is_method_loaded(Self, job[t].name) THEN "return" ELSE "is_loaded")
    /\ UNCHANGED <<ctor, load_mode_, data_loader_, program_, deleter, methods_,
                   constructed, parsed, failed, last, OwnVars, VarVars, guarded, mutex,
                   job, built>>

\* line 83, without the test
LoadCheck_always_enters(t) ==
    /\ pc[t] = "is_loaded"
    /\ Goto(t, "data_loader_")
    /\ UNCHANGED <<ctor, load_mode_, data_loader_, program_, deleter, methods_,
                   constructed, parsed, failed, last, OwnVars, VarVars, guarded, mutex,
                   job, built>>

\* line 83: if (!is_loaded())
LoadCheck(t) ==
    /\ pc[t] = "is_loaded"
    /\ Goto(t, IF is_loaded(Self) THEN AfterLoad(t) ELSE "data_loader_")
    /\ UNCHANGED <<ctor, load_mode_, data_loader_, program_, deleter, methods_,
                   constructed, parsed, failed, last, OwnVars, VarVars, guarded, mutex,
                   job, built>>

\* line 84: if (!data_loader_)
LoaderCheck(t) ==
    /\ pc[t] = "data_loader_"
    /\ Goto(t, IF data_loader_ = "null" THEN "DataLoader::from" ELSE "Program::load")
    /\ UNCHANGED <<ctor, load_mode_, data_loader_, program_, deleter, methods_,
                   constructed, parsed, failed, last, OwnVars, VarVars, guarded, mutex,
                   job, built>>

\* lines 85-103: data_loader_ = ET_UNWRAP_UNIQUE(...::from(...))
Construct(t) ==
    /\ pc[t] = "DataLoader::from"
    /\ \E env \in {AllOk, [AllOk EXCEPT !.file = FALSE]} :
          LET from == DataLoaderFrom(load_mode_, env)
          IN  IF from # Ok
              THEN /\ Fail(t, from)
                   /\ UNCHANGED <<data_loader_, constructed>>
              ELSE /\ data_loader_' = "constructed"
                   /\ constructed' = Capped(constructed + 1)
                   /\ Goto(t, "Program::load")
                   /\ UNCHANGED job
    /\ UNCHANGED <<ctor, load_mode_, program_, deleter, methods_,
                   parsed, failed, last, OwnVars, VarVars, guarded, mutex, built>>

\* lines 105-106: Program::load(data_loader_.get(), verification)
Parse(t) ==
    /\ pc[t] = "Program::load"
    /\ \E env \in {AllOk, [AllOk EXCEPT !.parse = FALSE]} :
          LET perr == ProgramLoad(env)
          IN  IF perr # Ok
              THEN /\ Fail(t, perr)
                   /\ UNCHANGED parsed
              ELSE /\ parsed' = Capped(parsed + 1)
                   /\ Goto(t, "program_")
                   /\ UNCHANGED job
    /\ UNCHANGED <<ctor, load_mode_, data_loader_, program_, deleter, methods_,
                   constructed, failed, last, OwnVars, VarVars, guarded, mutex, built>>

\* lines 107-111: program_ = shared_ptr(program, deleter capturing the moved
\* data_loader_)
Assign(t) ==
    /\ pc[t] = "program_"
    /\ program_' = "parsed"
    /\ deleter' = data_loader_
    /\ data_loader_' = "null"
    /\ Goto(t, AfterLoad(t))
    /\ UNCHANGED <<ctor, load_mode_, methods_, constructed, parsed, failed, last,
                   OwnVars, VarVars, guarded, mutex, job, built>>

\* lines 137-138: program_->method_meta(method_name)
Meta(t) ==
    /\ pc[t] = "method_meta"
    /\ LET merr == ProgramMethodMeta(job[t].name)
       IN  IF merr # Ok
           THEN Fail(t, merr)
           ELSE Goto(t, "planned_buffers") /\ UNCHANGED job
    /\ UNCHANGED <<ctor, load_mode_, data_loader_, program_, deleter, methods_,
                   constructed, parsed, failed, last, OwnVars, VarVars, guarded, mutex,
                   built>>

\* lines 139-157: the planned buffers, spans and allocators of the holder,
\* locals of the call
Alloc(t) ==
    /\ pc[t] = "planned_buffers"
    /\ Goto(t, "Program::load_method")
    /\ UNCHANGED <<ctor, load_mode_, data_loader_, program_, deleter, methods_,
                   constructed, parsed, failed, last, OwnVars, VarVars, guarded, mutex,
                   job, built>>

\* lines 158-161: program_->load_method(method_name, memory_manager, tracer)
Materialize(t) ==
    /\ pc[t] = "Program::load_method"
    /\ \E env \in {AllOk, [AllOk EXCEPT !.mat = FALSE]} :
          LET name == job[t].name
              lerr == ProgramLoadMethod(name, PlannedBuffers(MethodMetaOf(name)), env)
          IN  IF lerr # Ok
              THEN /\ Fail(t, lerr)
                   /\ UNCHANGED built
              ELSE /\ built' = [built EXCEPT ![name] = Capped(built[name] + 1)]
                   /\ Goto(t, "emplace")
                   /\ UNCHANGED job
    /\ UNCHANGED <<ctor, load_mode_, data_loader_, program_, deleter, methods_,
                   constructed, parsed, failed, last, OwnVars, VarVars, guarded, mutex>>

\* line 162: methods_.emplace(method_name, std::move(method_holder)).  Two
\* contexts in the unordered_map at once is a data race: the entry may be
\* inserted or lost
Emplace(t) ==
    /\ pc[t] = "emplace"
    /\ LET name == job[t].name
           meta == MethodMetaOf(name)
           inserted == methods_ @@ (name :> NewHolder(meta, PlannedBuffers(meta)))
       IN  methods_' \in IF Racing(t) THEN {inserted, methods_} ELSE {inserted}
    /\ Goto(t, "return")
    /\ UNCHANGED <<ctor, load_mode_, data_loader_, program_, deleter,
                   constructed, parsed, failed, last, OwnVars, VarVars, guarded, mutex,
                   job, built>>

\* lines 113 and 164, and the early returns: the call returns, and the
\* caller gives back the mutex
Leave(t) ==
    /\ pc[t] = "return"
    /\ Goto(t, "idle")
    /\ mutex' = 0
    /\ job' = [job EXCEPT ![t] = NoJob]
    /\ UNCHANGED <<ctor, load_mode_, data_loader_, program_, deleter, methods_,
                   constructed, parsed, failed, last, OwnVars, VarVars, guarded, built>>

\* an instance constructed from a file path, used by two contexts whose
\* callers do or do not serialize the calls
InitRace ==
    /\ Constructed /\ ctor = "file_path" /\ load_mode_ = "MmapUseMlock"
    /\ guarded \in BOOLEAN
    /\ RaceIdle
    /\ VarIdle

NextRace ==
    \E t \in Contexts :
        \/ Begin(t)
        \/ MethodCheck(t)
        \/ LoadCheck(t)
        \/ LoaderCheck(t)
        \/ Construct(t)
        \/ Parse(t)
        \/ Assign(t)
        \/ Meta(t)
        \/ Alloc(t)
        \/ Materialize(t)
        \/ Emplace(t)
        \/ Leave(t)

SpecRace == InitRace /\ [][NextRace]_vars

----------------------------------------------------------------------------
(* op_var.cpp.  The elements are numbers computed exactly: a value of       *)
(* CTYPE_OUT is a fraction <<p, q>> in lowest terms with q > 0, or NaN,      *)
(* written <<0, 0>>.                                                        *)

NaN == <<0, 0>>

Abs(x) == IF x < 0 THEN -x ELSE x

RECURSIVE Gcd(_, _)
Gcd(a, b) == IF b = 0 THEN a ELSE Gcd(b, a % b)

\* the fraction p / q, q # 0
Frac(p, q) ==
    LET g == Gcd(Abs(p), Abs(q))
        sign == IF q < 0 THEN -1 ELSE 1
    IN  <<(sign * p) \div g, (sign * q) \div g>>

Plus(a, b) == Frac(a[1] * b[2] + b[1] * a[2], a[2] * b[2])

Minus(a, b) == Frac(a[1] * b[2] - b[1] * a[2], a[2] * b[2])

Times(a, b) == Frac(a[1] * b[1], a[2] * b[2])

\* a value of CTYPE_OUT divided by a size_t that is not 0
Over(a, n) == Frac(a[1], a[2] * n)

\* static_cast<CTYPE_OUT>(v)
Cast(v) == <<v, 1>>

\* size_t arithmetic is modulo 2^SizeBits
SizeMod == 2 ^ SizeBits

\* the values of the elements of in
Elements == {-1, 2}

\* the tensors in: num elements reduced into each of up to MaxOut elements
\* of out
Tensors ==
    UNION {[num : {n}, rows : [1..k -> [1..n -> Elements]]] :
              n \in 0..MaxNum, k \in 0..MaxOut}

\* get_reduced_dim_product(in, dim_list)
get_reduced_dim_product(in) == in.num

\* map_reduce_over_dim_list(map_fun, [](outv, acc) { return acc + outv; },
\* in, dim_list, out_ix), given as mapped the values of map_fun at the
\* elements reduced into out_ix: they are added up from the first on
map_reduce_over_dim_list(mapped) ==
    LET acc[i \in 1..Len(mapped)] ==
            IF i = 1 THEN mapped[1] ELSE Plus(acc[i - 1], mapped[i])
    IN  IF mapped = <<>> THEN Cast(0) ELSE acc[Len(mapped)]

\* line 57 without the look at unbiased
Denominator_biased(num, is_unbiased) == num

\* line 57: const size_t denominator = unbiased ? num - 1 : num
Denominator(num, is_unbiased) ==
    IF is_unbiased THEN (num - 1) % SizeMod ELSE num

\* lines 64-81: one element of out
Variance(in, num, denominator, out_ix) ==
    LET row == in.rows[out_ix]
        sum == map_reduce_over_dim_list([i \in DOMAIN row |-> Cast(row[i])])
        mean == Over(sum, num)
        sum2 == map_reduce_over_dim_list(
                    [i \in DOMAIN row |->
                        Times(Minus(Cast(row[i]), mean), Minus(Cast(row[i]), mean))])
    IN  Over(sum2, denominator)

\* var_out, lines 55-83: the elements of out
var_out(in, is_unbiased) ==
    LET num == get_reduced_dim_product(in)
        denominator == Denominator(num, is_unbiased)
    IN  IF num = 0 \/ denominator = 0
        THEN [out_ix \in 1..Len(in.rows) |-> NaN]
        ELSE [out_ix \in 1..Len(in.rows) |-> Variance(in, num, denominator, out_ix)]

\* a tensor and a flag, before the call
InitVar ==
    /\ Constructed /\ ctor = "program"
    /\ guarded = TRUE /\ RaceIdle
    /\ in_data \in Tensors
    /\ unbiased \in BOOLEAN
    /\ out_data = Unset
    /\ written = FALSE

VarOut ==
    /\ ~written
    /\ out_data' = var_out(in_data, unbiased)
    /\ written' = TRUE
    /\ UNCHANGED <<ctor, load_mode_, data_loader_, program_, deleter, methods_,
                   constructed, parsed, failed, last, OwnVars, RaceVars,
                   in_data, unbiased>>

NextVar == VarOut

SpecVar == InitVar /\ [][NextVar]_vars

----------------------------------------------------------------------------
(* Properties *)

\* the steps of the last call that are calls of the collaborators, not the
\* markers of the member functions load and load_method
Work(steps) ==
    SelectSeq(steps, LAMBDA st : st.stage \notin {"load", "load_method"})

LoadErrors == {"AccessorConstructionError", "ProgramParseError"}

\* C1: over any sequence of calls of load(), made directly or forced by
\* method_names, load_method, method_meta, execute and set_output_data_ptr,
\* at most one data loader is constructed and at most one Program is parsed.
LoadIsIdempotent == constructed <= 1 /\ parsed <= 1

\* a load() on an instance that load() has loaded already: it does nothing
LoadIsIdempotentWitness ==
    /\ last.op = "load" /\ last.err = Ok
    /\ last.steps = <<Step("load", 0, Ok)>>
    /\ constructed = 1 /\ parsed = 1 /\ program_ = "parsed"

\* C2, as claimed: a load() that returns an error leaves program_ and
\* data_loader_ as they were before the call.
LoadFailureRestoresFields ==
    [][(last'.op = "load" /\ last'.err # Ok)
        => (program_' = program_ /\ data_loader_' = data_loader_)]_vars

\* C2, amended: a load() that returns an error leaves program_ unset and the
\* method cache as it was; data_loader_ is as before the call when the data
\* loader could not be constructed, and holds the data loader this call
\* constructed (or the one it had) when the parse failed.
LoadFailureKeepsLoader ==
    [][(last'.op = "load" /\ last'.err # Ok)
        => /\ last'.err \in LoadErrors
           /\ program_ = "null" /\ program_' = "null"
           /\ deleter' = deleter /\ methods_' = methods_
           /\ (last'.err = "AccessorConstructionError"
                 => data_loader_ = "null" /\ data_loader_' = "null")
           /\ (last'.err = "ProgramParseError"
                 => data_loader_' = IF data_loader_ = "null"
                                    THEN "constructed" ELSE data_loader_)]_vars

\* a load() whose parse failed after it constructed the data loader
LoadFailureKeepsLoaderWitness ==
    /\ last.op = "load" /\ last.err = "ProgramParseError"
    /\ Len(Work(last.steps)) = 2
    /\ data_loader_ = "constructed" /\ program_ = "null"

\* C3: a load_method(name) that returns an error, whatever the failing step,
\* leaves the method cache as it was, and is_method_loaded(name) is false.
LoadMethodFailureInsertsNothing ==
    [][(last'.op = "load_method" /\ last'.err # Ok)
        => (methods_' = methods_ /\ ~is_method_loaded(Self', last'.name))]_vars

\* a load_method that failed at the materialization, after the buffers of
\* the holder were allocated
LoadMethodFailureInsertsNothingWitness ==
    /\ last.op = "load_method" /\ last.err = "MethodMaterializationError"
    /\ \E i \in DOMAIN last.steps : last.steps[i].stage = "planned_buffer"
    /\ ~is_method_loaded(Self, last.name)

\* C4, as claimed: a load_method(name) that returns an error leaves program_
\* and data_loader_ as they were before the call.
LoadMethodFailureRestoresProgram ==
    [][(last'.op = "load_method" /\ last'.err # Ok)
        => (program_' = program_ /\ data_loader_' = data_loader_)]_vars

\* C4, amended: a load_method(name) that returns an error keeps the effect of
\* the load() it forced.  Failing at the metadata lookup or the
\* materialization it leaves the Program loaded (newly parsed, with the data
\* loader moved into it, when it was not loaded before the call); failing in
\* load() it leaves what a failing load() leaves; the method cache is as
\* before in every case.
LoadMethodFailureKeepsLoad ==
    [][(last'.op = "load_method" /\ last'.err # Ok)
        => /\ methods_' = methods_
           /\ (last'.err \notin LoadErrors
                 => /\ is_loaded(Self')
                    /\ data_loader_' = "null"
                    /\ (is_loaded(Self)
                          => program_' = program_ /\ deleter' = deleter)
                    /\ (~is_loaded(Self)
                          => /\ program_' = "parsed"
                             /\ deleter' = IF data_loader_ = "null"
                                           THEN "constructed" ELSE data_loader_))
           /\ (last'.err \in LoadErrors
                 => /\ program_ = "null" /\ program_' = "null"
                    /\ deleter' = deleter
                    /\ (last'.err = "AccessorConstructionError"
                          => data_loader_' = data_loader_)
                    /\ (last'.err = "ProgramParseError"
                          => data_loader_' = IF data_loader_ = "null"
                                             THEN "constructed"
                                             ELSE data_loader_))]_vars

\* a load_method that parsed the Program and then failed at the metadata
\* lookup: the instance is loaded although the call returned an error
LoadMethodFailureKeepsLoadWitness ==
    /\ last.op = "load_method" /\ last.err = "MethodNotFoundError"
    /\ \E i \in DOMAIN last.steps :
          last.steps[i] = Step("Program::load", 0, Ok)
    /\ program_ = "parsed" /\ methods_ = <<>>

\* C5: once load_method(name) has succeeded, a later load_method(name)
\* returns Ok, calls neither load() nor any collaborator (no metadata lookup,
\* no buffer, no materialization) and leaves the instance as it is.
LoadMethodIsIdempotent ==
    [][(last'.op = "load_method" /\ is_method_loaded(Self, last'.name))
        => /\ last'.err = Ok
           /\ last'.steps = <<Step("load_method", 0, Ok)>>
           /\ Self' = Self
           /\ constructed' = constructed /\ parsed' = parsed]_vars

\* a second load_method of a loaded method: nothing but the call itself
LoadMethodIsIdempotentWitness ==
    /\ last.op = "load_method" /\ last.err = Ok
    /\ last.steps = <<Step("load_method", 0, Ok)>>
    /\ is_method_loaded(Self, last.name)

\* the places in the steps of the last call where the given stage was called
At(stage) == {i \in DOMAIN last.steps : last.steps[i].stage = stage}

ExecuteStages == {"set_input", "execute", "get_outputs"}

\* C6: execute(name, inputs) with a name that is no method of the Program
\* fails with the method-not-found error, binds no input, runs nothing,
\* returns no outputs and creates no holder for name.  (The Program is the
\* one the instance holds after the call; when the load() that execute forces
\* fails there is no Program, and the error is the one of load().)
ExecuteUnknownMethod ==
    (last.op = "execute" /\ last.name \notin ProgramMethods)
        => /\ last.err # Ok
           /\ is_loaded(Self) => last.err = "MethodNotFoundError"
           /\ ~is_loaded(Self) => last.err \in LoadErrors
           /\ \A i \in DOMAIN last.steps : last.steps[i].stage \notin ExecuteStages
           /\ last.outputs = <<>>
           /\ ~is_method_loaded(Self, last.name)

\* an execute of the unknown method, with inputs, on a loaded instance that
\* holds another method
ExecuteUnknownMethodWitness ==
    /\ last.op = "execute" /\ last.name \notin ProgramMethods
    /\ last.size > 0
    /\ last.err = "MethodNotFoundError"
    /\ methods_ # <<>>

\* C7, as claimed: execute on a loaded method of input arity K with fewer or
\* more than K inputs returns the input-binding error.
ExecuteChecksArity ==
    (/\ last.op = "execute"
     /\ is_method_loaded(Self, last.name)
     /\ last.size # MethodMetaOf(last.name).inputs)
        => last.err = "InputBindingError"

\* C8: execute calls load_method, then set_input for the indices 0, 1, ... in
\* order, then Method::execute, then get_outputs.  Each stage is reached only
\* if all stages before it succeeded (the run only after every supplied input
\* was bound, the outputs only after the run), the call returns the outputs,
\* as many as the method declares, only if every stage succeeded, and
\* otherwise the error of the first failing stage and no outputs.
ExecuteStagesInOrder ==
    last.op = "execute"
        => LET steps == last.steps
               work == Work(steps)
               binds == At("set_input")
               runs == At("execute")
               reads == At("get_outputs")
           IN  /\ steps[1].stage = "load_method"
               /\ \A i \in DOMAIN steps : \A j \in binds \cup runs \cup reads :
                     steps[i].stage \notin ExecuteStages => i < j
               /\ \A i \in binds : \A j \in runs \cup reads : i < j
               /\ \A i \in runs : \A j \in reads : i < j
               /\ Cardinality(runs) <= 1 /\ Cardinality(reads) <= 1
               /\ \A i \in binds :
                     steps[i].arg = Cardinality({j \in binds : j < i})
               /\ \A i \in 1..(Len(work) - 1) : work[i].err = Ok
               /\ last.err = IF work = <<>> THEN Ok ELSE work[Len(work)].err
               /\ runs # {} => /\ Cardinality(binds) = last.size
                               /\ \A i \in binds : steps[i].err = Ok
                               /\ steps[1].err = Ok
               /\ reads # {} => \E i \in runs : steps[i].err = Ok
               /\ last.err = Ok
                     => /\ reads # {}
                        /\ Len(last.outputs) = MethodMetaOf(last.name).outputs
               /\ last.err # Ok => last.outputs = <<>>

\* an execute that loaded the method, bound two inputs, ran, and returned
\* the outputs
ExecuteStagesInOrderWitness ==
    /\ last.op = "execute" /\ last.err = Ok
    /\ At("Program::load_method") # {}
    /\ Cardinality(At("set_input")) = 2
    /\ At("get_outputs") # {}
    /\ Len(last.outputs) = 1

\* the content of the input slots of a method before a call: those of its
\* holder, or those of a new holder
SlotsBefore(name) ==
    IF is_method_loaded(Self, name)
    THEN methods_[name].inputs
    ELSE NewHolder(MethodMetaOf(name), PlannedBuffers(MethodMetaOf(name))).inputs

\* C9: when set_input fails for input i during execute, the call returns at
\* once: the inputs before i stay bound to the values of this call, no input
\* after i is tried, the slots from i on keep their content, the method is
\* not run, nothing is returned, and the holder stays in the cache.
ExecuteBindFailure ==
    [][(last'.op = "execute" /\ last'.err = "InputBindingError")
        => LET steps == last'.steps
               i == steps[Len(steps)].arg
               name == last'.name
               K == MethodMetaOf(name).inputs
           IN  /\ steps[Len(steps)] = Step("set_input", i, "InputBindingError")
               /\ \A j \in DOMAIN steps : steps[j].stage \notin {"execute", "get_outputs"}
               /\ \A j \in DOMAIN steps :
                     steps[j].stage = "set_input" => steps[j].arg <= i
               /\ is_method_loaded(Self', name)
               /\ Len(methods_'[name].inputs) = K
               /\ \A j \in 0..(K - 1) :
                     /\ j < i => methods_'[name].inputs[j + 1] \in Values
                     /\ j >= i => methods_'[name].inputs[j + 1] = SlotsBefore(name)[j + 1]
               /\ last'.outputs = <<>>]_vars

\* an execute of "forward" whose second input was refused: the first stays
\* bound, the second slot is still as the Program left it
ExecuteBindFailureWitness ==
    /\ last.op = "execute" /\ last.err = "InputBindingError"
    /\ last.name = "forward" /\ last.size = 2
    /\ is_method_loaded(Self, "forward")
    /\ methods_["forward"].inputs = <<"t1", Unbound>>

Collaborators == {"DataLoader::from", "Program::load", "Program::load_method"}

\* an execute with one accepted value per declared input, all collaborators
\* succeeding
GoodInput(name) == [i \in 1..MethodMetaOf(name).inputs |-> "t1"]

\* C10: a method whose load_method failed is not loaded; a load_method of a
\* method of the Program fails only when a collaborator fails during that
\* very call, never because an earlier load() or load_method failed; and
\* when it succeeds, also after earlier failures, the holder it leaves
\* executes.
LoadMethodRecovers ==
    /\ \A name \in failed : ~is_method_loaded(Self, name)
    /\ (/\ last.op = "load_method"
        /\ last.name \in ProgramMethods
        /\ last.err # Ok)
          => LET work == Work(last.steps)
             IN  /\ work # <<>>
                 /\ work[Len(work)].stage \in Collaborators
                 /\ work[Len(work)].err = last.err
    /\ (last.op = "load_method" /\ last.err = Ok)
          => /\ is_method_loaded(Self, last.name)
             /\ LET r == execute(Self, load_mode_, last.name,
                                 GoodInput(last.name), AllOk)
                IN  /\ r.err = Ok
                    /\ r.outputs = MethodRun(last.name, GoodInput(last.name))

\* a load_method that succeeds for a method whose load_method had failed
LoadMethodRecoversWitness ==
    /\ last.op = "load_method" /\ last.err = Ok /\ last.retry
    /\ At("Program::load_method") # {}
    /\ is_method_loaded(Self, last.name)

\* the calls of the given stage made by the call that leads to the next
\* state, failed ones included
Attempts(stage) ==
    Cardinality({i \in DOMAIN last'.steps : last'.steps[i].stage = stage})

\* C11, as claimed: on an instance on which no member function has been
\* called is_loaded() is false; is_loaded() is true exactly when a Program is
\* set; method_names() on such an instance makes exactly one load() call.
FreshIsUnloaded ==
    /\ [](last.op = "none" => ~is_loaded(Self))
    /\ [](is_loaded(Self) <=> (ctor = "program" \/ parsed > 0))
    /\ [][(last.op = "none" /\ last'.op = "method_names")
            => Attempts("load") = 1]_vars

\* C11, amended: on an instance on which no member function has been called
\* is_loaded() is false when the instance was constructed from a file path or
\* a data loader, and true when it was constructed from a Program;
\* is_loaded() is true exactly when a Program is set, the one given to the
\* constructor or the one a load() parsed; method_names() on an instance on
\* which nothing has been called makes exactly one load() call, which asks
\* for at most one data loader and at most one parse, and for none when the
\* instance was constructed from a Program.
FreshIsUnloadedUnlessGiven ==
    /\ [](last.op = "none" => (is_loaded(Self) <=> ctor = "program"))
    /\ [](is_loaded(Self) <=> (ctor = "program" \/ parsed > 0))
    /\ [][(last.op = "none" /\ last'.op = "method_names")
            => /\ Attempts("load") = 1
               /\ last'.steps[1].stage = "load"
               /\ Attempts("DataLoader::from") <= 1
               /\ Attempts("Program::load") <= 1
               /\ ctor = "file_path" => Attempts("DataLoader::from") = 1
               /\ ctor = "program"
                     => Attempts("DataLoader::from") + Attempts("Program::load") = 0
               /\ last'.err = Ok => is_loaded(Self')]_vars

\* method_names() as the first call on an instance constructed from a file
\* path: one load(), which constructed the data loader and parsed the Program
FreshIsUnloadedUnlessGivenWitness ==
    /\ last.op = "method_names" /\ last.err = Ok
    /\ ctor = "file_path"
    /\ Cardinality(At("load")) = 1
    /\ constructed = 1 /\ parsed = 1 /\ methods_ = <<>>

\* C16: method_names() calls load() first.  When load() succeeds it returns
\* exactly the names of the methods of the Program, those at the indices
\* 0..count-1, as a set; when load() fails it returns that error and no name;
\* in both cases the method cache is as it was before the call.
MethodNamesListsTheProgram ==
    [][last'.op = "method_names"
        => /\ last'.steps[1] = Step("load", 0, last'.err)
           /\ \A i \in DOMAIN last'.steps :
                 last'.steps[i].stage \in {"load", "DataLoader::from", "Program::load"}
           /\ last'.err = Ok
                 => /\ is_loaded(Self')
                    /\ last'.names = ProgramMethods
                    /\ last'.names = {ProgramMethodList[i] : i \in DOMAIN ProgramMethodList}
           /\ last'.err # Ok
                 => /\ last'.err \in LoadErrors
                    /\ ~is_loaded(Self')
                    /\ last'.names = {}
           /\ methods_' = methods_]_vars

\* method_names() that had to load the Program and returned both names,
\* with no method loaded
MethodNamesListsTheProgramWitness ==
    /\ last.op = "method_names" /\ last.err = Ok
    /\ At("Program::load") # {}
    /\ last.names = {"forward", "identity"}
    /\ methods_ = <<>>

\* C13: the method cache maps a name to one holder and only grows.  A call
\* of any member function, failing or not, keeps every holder that is in the
\* cache: its planned buffers and spans are the same, a bound input slot
\* stays bound and a rebound output slot stays rebound; holders of other
\* names than the one the call is for are untouched; a holder is created
\* only for the name of the call and only when it has none, so at most once
\* per name.
CacheOnlyGrows ==
    [][/\ \A n \in DOMAIN methods_ :
             /\ n \in DOMAIN methods_'
             /\ methods_'[n].planned_buffers = methods_[n].planned_buffers
             /\ methods_'[n].planned_spans = methods_[n].planned_spans
             /\ \A i \in DOMAIN methods_[n].inputs :
                   methods_[n].inputs[i] # Unbound
                       => methods_'[n].inputs[i] # Unbound
             /\ \A i \in DOMAIN methods_[n].output_ptr :
                   methods_[n].output_ptr[i] = "external"
                       => methods_'[n].output_ptr[i] = "external"
             /\ n # last'.name => methods_'[n] = methods_[n]
             /\ last'.op \in {"load", "method_names", "load_method", "method_meta"}
                   => methods_'[n] = methods_[n]
       /\ DOMAIN methods_' \ DOMAIN methods_ \subseteq {last'.name}
       /\ (\E i \in DOMAIN last'.steps :
               last'.steps[i].stage = "Program::load_method")
             => ~is_method_loaded(Self, last'.name)
       /\ (is_method_loaded(Self', last'.name) /\ ~is_method_loaded(Self, last'.name))
             => \E i \in DOMAIN last'.steps :
                   last'.steps[i] = Step("Program::load_method", 0, Ok)]_vars

\* an execute that failed while both methods were loaded: both holders are
\* still in the cache, the inputs of "forward" bound by an earlier call
CacheOnlyGrowsWitness ==
    /\ last.op = "execute" /\ last.err = "InputBindingError"
    /\ last.name = "forward"
    /\ DOMAIN methods_ = {"forward", "identity"}
    /\ methods_["forward"].inputs = <<"t1", "t1">>

\* the sizes of the planned buffers the next call allocates, in the order it
\* allocates them
Allocated ==
    LET steps == SelectSeq(last'.steps, LAMBDA st : st.stage = "planned_buffer")
    IN  [i \in DOMAIN steps |-> steps[i].arg]

\* C14: a load_method(name) that gets the metadata allocates one buffer per
\* entry of the declared buffer sizes, in the order of the plan and of the
\* declared size, whatever else the call does; after a successful
\* load_method(name) the holder has exactly these buffers and one span over
\* each: two regions of 128 and 256 bytes for the sizes <<128, 256>>.
PlannedMemoryFollowsMetadata ==
    /\ [](\A n \in DOMAIN methods_ :
             /\ Len(methods_[n].planned_buffers) = Len(MethodMetaOf(n).buffers)
             /\ \A i \in DOMAIN methods_[n].planned_buffers :
                   /\ methods_[n].planned_buffers[i] = MethodMetaOf(n).buffers[i]
                   /\ methods_[n].planned_spans[i] = MethodMetaOf(n).buffers[i])
    /\ []("forward" \in DOMAIN methods_
             => methods_["forward"].planned_spans = <<128, 256>>)
    /\ [][(\E i \in DOMAIN last'.steps :
               last'.steps[i] = Step("method_meta", 0, Ok))
            => Allocated = MethodMetaOf(last'.name).buffers]_vars
    /\ [][(last'.op = "load_method" /\ last'.err = Ok)
            => is_method_loaded(Self', last'.name)]_vars

\* a load_method("forward") that allocated the two buffers and inserted the
\* holder
PlannedMemoryFollowsMetadataWitness ==
    /\ last.op = "load_method" /\ last.name = "forward" /\ last.err = Ok
    /\ Cardinality(At("planned_buffer")) = 2
    /\ is_method_loaded(Self, "forward")
    /\ methods_["forward"].planned_buffers = <<128, 256>>

\* C15: set_output_data_ptr(tensor, index) calls load_method("forward") and
\* touches no holder but that of "forward".  When load_method fails it
\* returns that error and rebinds nothing; otherwise it asks the Method of
\* "forward" to rebind output slot index and returns what the Method
\* returns, and on Ok that slot, and no other, points to the storage of the
\* tensor.  A successful execute("forward") on a holder whose slot 0 was
\* rebound leaves in that storage the value it returns for slot 0.
SetOutputDataPtrRebindsForward ==
    /\ [][last'.op = "set_output_data_ptr"
            => LET steps == last'.steps
                   final == steps[Len(steps)]
               IN  /\ steps[1].stage = "load_method"
                   /\ \A n \in DOMAIN methods_' :
                         n # "forward" => n \in DOMAIN methods_ /\ methods_'[n] = methods_[n]
                   /\ DOMAIN methods_ \subseteq DOMAIN methods_'
                   /\ steps[1].err # Ok
                         => /\ last'.err = steps[1].err
                            /\ methods_' = methods_
                            /\ ~is_method_loaded(Self', "forward")
                            /\ \A i \in DOMAIN steps :
                                  steps[i].stage # "set_output_data_ptr"
                   /\ steps[1].err = Ok
                         => /\ final.stage = "set_output_data_ptr"
                            /\ final.err = last'.err
                            /\ is_method_loaded(Self', "forward")
                            /\ \A i \in DOMAIN methods_'["forward"].output_ptr :
                                  methods_'["forward"].output_ptr[i] =
                                     IF last'.err = Ok /\ i = final.arg + 1
                                     THEN "external"
                                     ELSE IF is_method_loaded(Self, "forward")
                                          THEN methods_["forward"].output_ptr[i]
                                          ELSE "planned"]_vars
    /\ [][(/\ last'.op = "execute" /\ last'.name = "forward" /\ last'.err = Ok
            /\ is_method_loaded(Self, "forward")
            /\ methods_["forward"].output_ptr[1] = "external")
            => /\ methods_'["forward"].external[1] = last'.outputs[1]
               /\ methods_'["forward"].external[1] =
                     MethodRun("forward", methods_'["forward"].inputs)[1]]_vars

\* a successful execute("forward") after slot 0 was rebound: the storage of
\* the tensor holds the output the call returned
SetOutputDataPtrRebindsForwardWitness ==
    /\ last.op = "execute" /\ last.name = "forward" /\ last.err = Ok
    /\ methods_["forward"].output_ptr[1] = "external"
    /\ last.outputs = << <<"t1", "t1">> >>
    /\ methods_["forward"].external[1] = <<"t1", "t1">>

\* C17: an instance constructed from a Program is loaded from the start and
\* stays so with the Program it was given: no call ever asks for a data
\* loader or a parse.  An instance constructed with a data loader never asks
\* for another one, whatever the load mode: the data loader it was given is
\* the one it holds or the one its Program was parsed from.
GivenPartsAreUsed ==
    /\ ctor = "program"
          => /\ is_loaded(Self)
             /\ program_ = "shared" /\ data_loader_ = "null" /\ deleter = "null"
             /\ constructed = 0 /\ parsed = 0
             /\ At("DataLoader::from") = {} /\ At("Program::load") = {}
             /\ \A mode \in LoadModes, env \in Envs :
                   load(Self, mode, env) = Return(Self, Ok, <<>>)
    /\ ctor = "data_loader"
          => /\ constructed = 0
             /\ At("DataLoader::from") = {}
             /\ IF is_loaded(Self)
                THEN program_ = "parsed" /\ deleter = "injected" /\ data_loader_ = "null"
                ELSE data_loader_ = "injected" /\ deleter = "null"
             /\ \A mode \in LoadModes, env \in Envs :
                   \A i \in DOMAIN load(Self, mode, env).steps :
                      load(Self, mode, env).steps[i].stage # "DataLoader::from"

\* an instance constructed with a data loader whose load() parsed the
\* Program from that data loader
GivenPartsAreUsedWitness ==
    /\ ctor = "data_loader"
    /\ last.op = "load" /\ last.err = Ok
    /\ At("Program::load") # {}
    /\ program_ = "parsed" /\ deleter = "injected"
    /\ constructed = 0 /\ parsed = 1

\* C19: a method in the cache implies a loaded Program: is_method_loaded(name)
\* implies is_loaded() for every name; and whenever the Program that load()
\* parsed is set, data_loader_ is empty, the data loader being held by the
\* deleter of program_.
HolderImpliesProgram ==
    /\ \A name \in Names : is_method_loaded(Self, name) => is_loaded(Self)
    /\ methods_ # <<>> => is_loaded(Self)
    /\ program_ = "parsed"
          => /\ data_loader_ = "null"
             /\ deleter \in {"constructed", "injected"}
             /\ deleter = "injected" <=> ctor = "data_loader"
    /\ program_ # "parsed" => deleter = "null"

\* both methods loaded on an instance whose load() constructed the data
\* loader: the Program is set, the data loader is with its deleter
HolderImpliesProgramWitness ==
    /\ is_method_loaded(Self, "forward") /\ is_method_loaded(Self, "identity")
    /\ program_ = "parsed" /\ deleter = "constructed" /\ data_loader_ = "null"

\* C12: the data loader a Program was parsed from is not released while the
\* Program is alive and does not outlive it.  It is released once, when the
\* Program is deleted, and the Program is deleted once, when the Module is
\* gone and no copy of program_ is left: also when the Module that loaded it
\* is destroyed while copies are held.
LoaderLivesWithProgram ==
    /\ deleted <= 1 /\ released <= 1
    /\ parsed > deleted => released = 0 /\ deleter # "null"
    /\ (parsed > 0 /\ deleted = parsed) => released = 1 /\ deleter = "null"
    /\ deleted = 1 <=> (parsed = 1 /\ ~alive /\ shares = 0)
    /\ (~alive /\ shares > 0 /\ parsed = 1) => deleted = 0 /\ released = 0

\* the Module was destroyed while a copy of its Program was held, and the
\* copy has now been dropped: Program and data loader went together
LoaderLivesWithProgramWitness ==
    /\ ~alive /\ shares = 0 /\ last.op = "drop"
    /\ parsed = 1 /\ deleted = 1 /\ released = 1

\* the contexts that are in a call
InCall == {t \in Contexts : pc[t] # "idle"}

\* C18: module.cpp takes no lock and load() and load_method() test, then
\* act.  When the callers serialize every call with a mutex of their own, at
\* most one context is in a call at a time, and over any number of calls at
\* most one data loader is constructed, at most one Program parsed and each
\* method materialized at most once, a cached method exactly once.  (Without
\* the mutex a state is reachable in which both contexts have passed the
\* tests, both have parsed the Program and both have looked up, allocated
\* and materialized the same method: the witness.)
SerializedCallsActOnce ==
    guarded
        => /\ Cardinality(InCall) <= 1
           /\ InCall \subseteq {mutex}
           /\ constructed <= 1 /\ parsed <= 1
           /\ \A n \in ProgramMethods :
                 /\ built[n] <= 1
                 /\ n \in DOMAIN methods_ => built[n] = 1
                 /\ (built[n] = 1 /\ n \notin DOMAIN methods_)
                       => \E t \in Contexts : pc[t] = "emplace" /\ job[t].name = n
           /\ parsed = 1
                 => \/ program_ = "parsed"
                    \/ \E t \in Contexts : pc[t] = "program_"

\* no mutex, two overlapping load_method("forward"): both contexts passed
\* the tests of lines 133 and 83, the Program was parsed twice and
\* "forward" materialized twice, and both are about to insert their holder
UnserializedCallsActTwice ==
    /\ ~guarded
    /\ \A t \in Contexts :
          /\ job[t].op = "load_method" /\ job[t].name = "forward"
          /\ pc[t] = "emplace"
    /\ parsed = 2 /\ built["forward"] = 2
    /\ ~is_method_loaded(Self, "forward")

RECURSIVE SumOf(_)
\* the integers of a sequence, added up
SumOf(row) ==
    IF row = <<>> THEN 0 ELSE Head(row) + SumOf(Tail(row))

\* C20: var_out fills out with NaN exactly when num is 0, or num is 1 and
\* unbiased is set; with num = 0 and unbiased set the denominator num - 1
\* wraps to the largest size_t, is not 0, and NaN is written all the same.
\* In every other case each element of out is the sum of the squared
\* deviations of the reduced elements from their mean, divided by num - 1
\* when unbiased is set and by num otherwise: with S1 the sum and S2 the sum
\* of the squares of the num reduced elements, (num * S2 - S1^2) / (num * d).
VarOutIsVariance ==
    written
        => LET num == in_data.num
               d == IF unbiased THEN num - 1 ELSE num
               nan == num = 0 \/ (num = 1 /\ unbiased)
           IN  /\ DOMAIN out_data = DOMAIN in_data.rows
               /\ nan => \A out_ix \in DOMAIN out_data : out_data[out_ix] = NaN
               /\ (num = 0 /\ unbiased)
                     => /\ Denominator(num, unbiased) = SizeMod - 1
                        /\ Denominator(num, unbiased) # 0
               /\ ~nan
                     => \A out_ix \in DOMAIN out_data :
                           LET row == in_data.rows[out_ix]
                               S1 == SumOf(row)
                               S2 == SumOf([i \in DOMAIN row |-> row[i] * row[i]])
                               p == out_data[out_ix][1]
                               q == out_data[out_ix][2]
                           IN  /\ out_data[out_ix] # NaN
                               /\ q > 0 /\ p >= 0
                               /\ p * (num * d) = q * (num * S2 - S1 * S1)

\* var_out called with nothing to reduce, unbiased set and out not empty:
\* the denominator wrapped and out is all NaN
VarOutIsVarianceWitness ==
    /\ written
    /\ in_data.num = 0 /\ unbiased
    /\ Len(in_data.rows) = MaxOut
    /\ \A out_ix \in DOMAIN out_data : out_data[out_ix] = NaN

====
